---- MODULE Spec2Model ----
(***************************************************************************)
(* A model of two MIScnn subfunctions:                                     *)
(*   miscnn/processing/subfunctions/mirroring.py        (class Mirroring)  *)
(*   miscnn/processing/subfunctions/sample_splitting.py (SampleSplitting)  *)
(*                                                                         *)
(* Arrays are records [shape, data]: shape is the tuple of extents and     *)
(* data maps every index tuple (1-based positions) to a voxel value.       *)
(* Axis numbers are 0-based as in the Python source, so axis a is          *)
(* position a + 1 of an index tuple.                                       *)
(***************************************************************************)
EXTENDS Integers, Sequences, FiniteSets, TLC

VARIABLES
    mirror,     \* the Mirroring object: [axisList, combineMirroring]
    msample,    \* the sample handed to Mirroring.preprocessing
    mresults,   \* outcome of Mirroring.preprocessing, or Pending
    mpost,      \* outcome of the last Mirroring.postprocessing call, or NoCall
    self,       \* the SampleSplitting object (its attributes, cache included)
    samples,    \* the samples handed to the splitter, mutated in place by it
    inputs,     \* the same samples as they were before any splitter call
    stage,      \* per sample, the last splitter call made on it
    call        \* the last SampleSplitting call: arguments, locals, outcome

vars == <<mirror, msample, mresults, mpost, self, samples, inputs, stage, call>>
mvars == <<mirror, msample, mresults, mpost>>
svars == <<self, samples, inputs, stage, call>>

\* ---------------------------------------------------------------- bounds
MaxRank == 3        \* images handed to Mirroring have rank 1..MaxRank
MaxDim == 2         \* every extent of such an image is in 1..MaxDim
MaxFlags == 3       \* axisList has 0..MaxFlags entries
MaxLen == 3         \* images handed to the splitter have 1..MaxLen voxels
MaxPatch == 2       \* patch_shape is (w,) with w in 1..MaxPatch

\* --------------------------------------------------------------- values
Pending == [err |-> "pending", results |-> <<>>]
NoCall == [j |-> 0, out |-> [err |-> "pending"]]
None == "None"
NoExtended == <<>>  \* an empty extended-data mapping

\* -------------------------------------------------------- numpy arrays
MaxOf(shape) == CHOOSE m \in {shape[i] : i \in DOMAIN shape} :
                    \A i \in DOMAIN shape : shape[i] <= m

Indices(shape) ==
    IF Len(shape) = 0 THEN {<<>>}
    ELSE {idx \in [1..Len(shape) -> 1..MaxOf(shape)] :
            \A i \in 1..Len(shape) : idx[i] <= shape[i]}

\* np.flip(m, axis) for a tuple of axes: AxisError when an axis is out of
\* bounds for the array, otherwise every listed axis is reversed.
NpFlip(m, axes) ==
    IF \E j \in 1..Len(axes) : axes[j] >= Len(m.shape) \/ axes[j] < 0
    THEN [err |-> "AxisError"]
    ELSE [err |-> "none",
          val |-> [shape |-> m.shape,
                   data |-> [idx \in Indices(m.shape) |->
                      m.data[[i \in 1..Len(m.shape) |->
                        IF \E j \in 1..Len(axes) : axes[j] = i - 1
                        THEN m.shape[i] + 1 - idx[i] ELSE idx[i]]]]]]

\* ------------------------------------------------------------- Sample
\* sample.copy(): a clone that shares nothing mutable with its source.
SampleCopy(sample) == sample

\* sample.add_extended_data({key: value})
AddExtendedData(sample, key, value) ==
    [sample EXCEPT !.ext = [k \in (DOMAIN sample.ext) \cup {key} |->
                              IF k = key THEN value ELSE sample.ext[k]]]

\* sample.get_extended_data()
GetExtendedData(sample) == sample.ext

\* Python values stored under "mirroring": an int or a list of ints.
PyInt(a) == [type |-> "int", v |-> <<a>>]
PyList(t) == [type |-> "list", v |-> t]

\* tuple(x): a list converts, an int is not iterable.
PyTuple(x) ==
    IF x.type = "list" THEN [err |-> "none", val |-> x.v]
    ELSE [err |-> "TypeError"]

\* ------------------------------------------------ itertools / builtins
\* The comprehension with the flag of axis 0 never looked at.
MirrorAxisesSkipFirst(axisList) ==
    SelectSeq([i \in 1..Len(axisList) |-> i - 1],
              LAMBDA a : a > 0 /\ axisList[a + 1])

\* [i for i, val in enumerate(self.axisList) if val]
MirrorAxises(axisList) ==
    SelectSeq([i \in 1..Len(axisList) |-> i - 1], LAMBDA a : axisList[a + 1])

\* itertools.combinations(pool, r): the r-length tuples of pool, emitted in
\* lexicographic order of the positions they take from pool.
RECURSIVE Combinations(_, _)
Combinations(pool, r) ==
    IF r = 0 THEN << <<>> >>
    ELSE IF Len(pool) < r THEN <<>>
    ELSE LET rest == Combinations(Tail(pool), r - 1)
         IN  [j \in 1..Len(rest) |-> <<Head(pool)>> \o rest[j]]
             \o Combinations(Tail(pool), r)

\* range(len(mirrorAxises)+1) with the sizes walked downwards.
RECURSIVE ChainCombinationsDown(_, _, _)
ChainCombinationsDown(pool, from, upto) ==
    IF from >= upto THEN <<>>
    ELSE ChainCombinationsDown(pool, from + 1, upto) \o Combinations(pool, from)

\* chain.from_iterable(combinations(pool, r) for r in range(from, upto))
RECURSIVE ChainCombinations(_, _, _)
ChainCombinations(pool, from, upto) ==
    IF from >= upto THEN <<>>
    ELSE Combinations(pool, from) \o ChainCombinations(pool, from + 1, upto)

\* ---------------------------------------------- Mirroring.preprocessing
\* The non-combining branch: the sample itself, then one clone per axis.
\* The loop stops at the first np.flip that raises; nothing is returned then.
RECURSIVE SingleAxisClones(_, _, _)
SingleAxisClones(sample, axes, acc) ==
    IF Len(axes) = 0 THEN [err |-> "none", results |-> acc]
    ELSE LET flipped == NpFlip(sample.img_data, <<Head(axes)>>)
         IN  IF flipped.err # "none" THEN [err |-> flipped.err, results |-> <<>>]
             ELSE SingleAxisClones(sample, Tail(axes),
                    Append(acc, AddExtendedData(
                        [SampleCopy(sample) EXCEPT !.img_data = flipped.val],
                        "mirroring", PyInt(Head(axes)))))

\* The combining branch: one clone per tuple of tmp, in tmp's order.
RECURSIVE CombinedClones(_, _, _)
CombinedClones(sample, tmp, acc) ==
    IF Len(tmp) = 0 THEN [err |-> "none", results |-> acc]
    ELSE LET flipped == NpFlip(sample.img_data, Head(tmp))
         IN  IF flipped.err # "none" THEN [err |-> flipped.err, results |-> <<>>]
             ELSE CombinedClones(sample, Tail(tmp),
                    Append(acc, AddExtendedData(
                        [SampleCopy(sample) EXCEPT !.img_data = flipped.val],
                        "mirroring", PyList(Head(tmp)))))

MirroringPreprocessing(this, sample) ==
    LET mirrorAxises == MirrorAxises(this.axisList)
    IN  IF ~this.combineMirroring
        THEN SingleAxisClones(sample, mirrorAxises, <<sample>>)
        ELSE CombinedClones(sample,
                ChainCombinations(mirrorAxises, 0, Len(mirrorAxises) + 1), <<>>)

\* --------------------------------------------- Mirroring.postprocessing
MirroringPostprocessing(this, sample, prediction) ==
    LET mirrorData == GetExtendedData(sample)
    IN  IF "mirroring" \in DOMAIN mirrorData
        THEN LET t == PyTuple(mirrorData["mirroring"])
             IN  IF t.err # "none" THEN [err |-> t.err]
                 ELSE NpFlip(prediction, t.val)
        ELSE [err |-> "none", val |-> prediction]

\* --------------------------------------------------- inputs (Mirroring)
Shapes == UNION {[1..r -> 1..MaxDim] : r \in 1..MaxRank}

\* position of idx in row-major order: every voxel of an image is distinct
RECURSIVE Linear(_, _)
Linear(shape, idx) ==
    IF Len(shape) = 0 THEN 0
    ELSE (idx[1] - 1) + shape[1] * Linear(Tail(shape), Tail(idx))

Image(shape) ==
    [shape |-> shape, data |-> [idx \in Indices(shape) |-> Linear(shape, idx)]]

AxisLists == UNION {[1..n -> BOOLEAN] : n \in 0..MaxFlags}

RawSample(index, img) ==
    [index |-> index, img_data |-> img, seg_data |-> None, ext |-> NoExtended]

\* ------------------------------------------------- actions (Mirroring)
MirrorInit ==
    /\ mirror \in [axisList : AxisLists, combineMirroring : BOOLEAN]
    /\ msample \in {RawSample(0, Image(s)) : s \in Shapes}
    /\ mresults = Pending
    /\ mpost = NoCall
    /\ self = [method |-> "none"]
    /\ samples = <<>>
    /\ inputs = <<>>
    /\ stage = <<>>
    /\ call = [op |-> "none"]

DoMirrorPreprocessing ==
    /\ mresults = Pending
    /\ mresults' = MirroringPreprocessing(mirror, msample)
    /\ UNCHANGED <<mirror, msample, mpost, svars>>

\* The network is the identity here: the prediction for an emitted sample is
\* that sample's own (flipped) image.
DoMirrorPostprocessing ==
    /\ mresults # Pending
    /\ \E j \in 1..Len(mresults.results) :
          mpost' = [j |-> j,
                    out |-> MirroringPostprocessing(mirror, mresults.results[j],
                                mresults.results[j].img_data)]
    /\ UNCHANGED <<mirror, msample, mresults, svars>>

MirrorNext == DoMirrorPreprocessing \/ DoMirrorPostprocessing

SpecMirror == MirrorInit /\ [][MirrorNext]_vars

\* ===================================================== claims: Mirroring
MirrorDone == mresults # Pending

Rank == Len(msample.img_data.shape)

\* the axes whose flag is set, as a set of 0-based axis numbers
Selected == {i - 1 : i \in {j \in 1..Len(mirror.axisList) : mirror.axisList[j]}}

SelectedBelowRank == \A a \in Selected : a < Rank

\* the n-th selected axis in increasing order (n = 1 is the smallest)
NthSelected(n) ==
    CHOOSE a \in Selected : Cardinality({b \in Selected : b <= a}) = n

Tag(j) == mresults.results[j].ext["mirroring"]

RangeOf(t) == {t[i] : i \in 1..Len(t)}

Increasing(t) == \A i \in 1..Len(t) : \A j \in 1..Len(t) : i < j => t[i] < t[j]

\* s comes before t in the natural index order of tuples of equal length
LexLess(s, t) ==
    \E i \in 1..Len(s) : s[i] < t[i] /\ \A j \in 1..(i - 1) : s[j] = t[j]

\* C6: every sample emitted by Mirroring.preprocessing, fed back through
\* Mirroring.postprocessing with its own flipped image as the prediction,
\* yields exactly the original unflipped image, in both combine modes.
C6_RoundTrip ==
    mpost # NoCall =>
        /\ mpost.out.err = "none"
        /\ mpost.out.val = msample.img_data

\* C7: with k selected axes, all below the image rank, preprocessing returns
\* 2^k samples when combining and 1 + k samples otherwise; in the latter
\* case the untagged original comes first, followed by one clone per
\* selected axis in increasing axis order, tagged with that single axis.
C7_Count ==
    (MirrorDone /\ SelectedBelowRank) =>
        LET k == Cardinality(Selected)
            n == Len(mresults.results)
        IN  /\ mresults.err = "none"
            /\ mirror.combineMirroring => n = 2 ^ k
            /\ ~mirror.combineMirroring =>
                  /\ n = 1 + k
                  /\ mresults.results[1] = msample
                  /\ "mirroring" \notin DOMAIN mresults.results[1].ext
                  /\ \A j \in 1..k :
                        /\ "mirroring" \in DOMAIN mresults.results[j + 1].ext
                        /\ Tag(j + 1) = PyInt(NthSelected(j))

C7_Witness ==
    /\ MirrorDone
    /\ SelectedBelowRank
    /\ ~mirror.combineMirroring
    /\ Cardinality(Selected) = 2
    /\ Len(mresults.results) = 3

\* C8: when combining, the clones are tagged with the subsets of the
\* selected axes, each subset exactly once and as an increasing list,
\* ordered by subset size and by natural index order within one size; for
\* the axes 0, 1, 2 the tags are [], [0], [1], [2], [0,1], [0,2], [1,2],
\* [0,1,2].
C8_Order ==
    (MirrorDone /\ SelectedBelowRank /\ mirror.combineMirroring) =>
        LET n == Len(mresults.results)
        IN  /\ \A j \in 1..n :
                  /\ "mirroring" \in DOMAIN mresults.results[j].ext
                  /\ Tag(j).type = "list"
                  /\ Increasing(Tag(j).v)
                  /\ RangeOf(Tag(j).v) \subseteq Selected
            /\ \A S \in SUBSET Selected :
                  Cardinality({j \in 1..n : RangeOf(Tag(j).v) = S}) = 1
            /\ \A i \in 1..n : \A j \in 1..n :
                  i < j =>
                    \/ Len(Tag(i).v) < Len(Tag(j).v)
                    \/ /\ Len(Tag(i).v) = Len(Tag(j).v)
                       /\ LexLess(Tag(i).v, Tag(j).v)
            /\ Selected = {0, 1, 2} =>
                  [j \in 1..n |-> Tag(j).v] =
                    << <<>>, <<0>>, <<1>>, <<2>>,
                       <<0, 1>>, <<0, 2>>, <<1, 2>>, <<0, 1, 2>> >>

C8_Witness ==
    /\ MirrorDone
    /\ mirror.combineMirroring
    /\ Selected = {0, 1, 2}
    /\ Len(mresults.results) = 8

\* C9: an axisList longer than the image rank is cut to the rank:
\* preprocessing completes and emits exactly the samples it emits for the
\* truncated list.
Truncated(axisList) ==
    SubSeq(axisList, 1, IF Len(axisList) < Rank THEN Len(axisList) ELSE Rank)

C9_Truncation ==
    (MirrorDone /\ Len(mirror.axisList) > Rank) =>
        /\ mresults.err = "none"
        /\ mresults = MirroringPreprocessing(
                [mirror EXCEPT !.axisList = Truncated(mirror.axisList)], msample)

\* ======================================================= SampleSplitting
\* The splitter's images have one spatial axis and a channel axis:
\* shape (n, channels); a batch of patches has shape (b, p, channels).
ClassIds == {0, 1}                  \* segmentation classes (one-hot channels)

\* ---------------------------------------------------------------- numpy
\* np.expand_dims(a, axis=0)
NpExpandDims(a) ==
    [shape |-> <<1>> \o a.shape,
     data |-> [idx \in Indices(<<1>> \o a.shape) |-> a.data[Tail(idx)]]]

\* np.squeeze(a, axis=0): ValueError unless the axis has extent 1
NpSqueeze(a) ==
    IF a.shape[1] # 1 THEN [err |-> "ValueError"]
    ELSE [err |-> "none",
          val |-> [shape |-> Tail(a.shape),
                   data |-> [idx \in Indices(Tail(a.shape)) |->
                                a.data[<<1>> \o idx]]]]

\* np.stack(arrays, axis=0) of a non-empty list of equally shaped arrays
NpStack(arrays) ==
    [shape |-> <<Len(arrays)>> \o arrays[1].shape,
     data |-> [idx \in Indices(<<Len(arrays)>> \o arrays[1].shape) |->
                  arrays[idx[1]].data[Tail(idx)]]]

\* a[lo-1:hi] along the first axis (lo, hi 1-based and inclusive)
Rows(a, lo, hi) ==
    [shape |-> <<hi - lo + 1>> \o Tail(a.shape),
     data |-> [idx \in Indices(<<hi - lo + 1>> \o Tail(a.shape)) |->
                  a.data[<<idx[1] + lo - 1>> \o Tail(idx)]]]

\* a[:, lo-1:hi] along the second axis of a batch
BatchRows(a, lo, hi) ==
    [shape |-> <<a.shape[1], hi - lo + 1>> \o Tail(Tail(a.shape)),
     data |-> [idx \in Indices(<<a.shape[1], hi - lo + 1>> \o Tail(Tail(a.shape))) |->
                  a.data[<<idx[1], idx[2] + lo - 1>> \o Tail(Tail(idx))]]]

\* img_data.shape[1:-1]
SpatialShape(batch) == SubSeq(batch.shape, 2, Len(batch.shape) - 1)

MinOf(a) == CHOOSE m \in {a.data[idx] : idx \in DOMAIN a.data} :
                \A idx \in DOMAIN a.data : m <= a.data[idx]

\* del list[i] for a 0-based i
PyDel(list, i) == SubSeq(list, 1, i) \o SubSeq(list, i + 2, Len(list))

\* ------------------------------------------ miscnn.utils.patch_operations
\* Start (0-based) of window k (0-based): windows step by window - overlap;
\* a window running over the end is moved back to end at the image border.
WindowStart(n, w, o, k) ==
    LET start == k * (w - o)
    IN  IF start + w <= n THEN start
        ELSE IF n - w < 0 THEN 0 ELSE n - w

WindowCount(n, w, o) ==
    IF n <= w THEN 1 ELSE ((n - o) + (w - o) - 1) \div (w - o)

\* slice_matrix(array, window, overlap, three_dim): the ordered patches
SliceMatrix(array, window, overlap) ==
    LET n == array.shape[1]
        w == window[1]
        o == overlap[1]
    IN  [k \in 1..WindowCount(n, w, o) |->
            LET start == WindowStart(n, w, o, k - 1)
            IN  Rows(array, start + 1, IF start + w <= n THEN start + w ELSE n)]

\* pad_patch(patch, patch_shape, return_slicer): the batch padded on both
\* sides of the spatial axis up to patch_shape, and the slicer that crops
\* the padding off again.
PadPatch(batch, patch_shape) ==
    LET p == batch.shape[2]
        w == patch_shape[1]
        below == IF w > p THEN (w - p) \div 2 ELSE 0
        width == IF w > p THEN w ELSE p
        shape == <<batch.shape[1], width>> \o Tail(Tail(batch.shape))
    IN  [val |-> [shape |-> shape,
                  data |-> [idx \in Indices(shape) |->
                      IF idx[2] > below /\ idx[2] <= below + p
                      THEN batch.data[<<idx[1], idx[2] - below>> \o Tail(Tail(idx))]
                      ELSE MinOf(batch)]],
         slicer |-> [lo |-> below + 1, hi |-> below + p]]

\* crop_patch(patch, slicer): the slice of the spatial axis the slicer
\* names; like any array slice it is cut at the end of the axis and may be
\* empty, it never raises.
CropPatch(batch, slicer) ==
    LET hi == IF slicer.hi > batch.shape[2] THEN batch.shape[2] ELSE slicer.hi
        lo == IF slicer.lo > hi THEN hi + 1 ELSE slicer.lo
    IN  BatchRows(batch, lo, hi)

\* concat_matrices(patches, image_size, window, overlap, three_dim): the
\* left inverse of slice_matrix; a voxel covered by several windows takes
\* the value of the first one.  For patches that are not the slices of an
\* image of image_size nothing is promised: the call raises (raises = TRUE)
\* or returns an array of meaningless voxels, written -1 here.
ConcatMatrices(patches, image_size, window, overlap, raises) ==
    LET n == image_size[1]
        w == window[1]
        o == overlap[1]
        shape == <<n>> \o Tail(Tail(patches.shape))
        Covers(k, pos) == /\ WindowStart(n, w, o, k - 1) < pos
                          /\ pos <= WindowStart(n, w, o, k - 1) + patches.shape[2]
    IN  IF \/ patches.shape[1] # WindowCount(n, w, o)
           \/ patches.shape[2] # (IF n < w THEN n ELSE w)
        THEN IF raises THEN [err |-> "ShapeError"]
             ELSE [err |-> "none",
                   val |-> [shape |-> shape,
                            data |-> [idx \in Indices(shape) |-> -1]]]
        ELSE [err |-> "none",
              val |-> [shape |-> shape,
                       data |-> [idx \in Indices(shape) |->
                          LET k == CHOOSE k \in 1..patches.shape[1] :
                                      /\ Covers(k, idx[1])
                                      /\ \A j \in 1..(k - 1) : ~Covers(j, idx[1])
                          IN  patches.data[<<k, idx[1] - WindowStart(n, w, o, k - 1)>>
                                              \o Tail(idx)]]]]

\* ------------------------------------------------- the augmentation driver
\* self.data_aug: the attribute does not exist until set_data_aug is called;
\* it then holds None or a driver without any augmentation method.
Unset == [kind |-> "unset", cropping |-> FALSE, cropping_patch_shape |-> <<>>]
NoDriver == [kind |-> "None", cropping |-> FALSE, cropping_patch_shape |-> <<>>]
Driver == [kind |-> "driver", cropping |-> FALSE, cropping_patch_shape |-> <<>>]

\* One array through data_aug.run / run_infaug: unchanged, or, with cropping
\* configured, cut to cropping_patch_shape at offset rnd (padded when the
\* image is smaller than the crop).
AugmentOne(driver, batch, rnd) ==
    IF ~driver.cropping THEN batch
    ELSE IF batch.shape[2] < driver.cropping_patch_shape[1]
         THEN PadPatch(batch, driver.cropping_patch_shape).val
         ELSE BatchRows(batch, rnd + 1, rnd + driver.cropping_patch_shape[1])

\* ------------------------------------------- names visible in the module
\* What sample_splitting.py binds at module level; any other free name in a
\* method body raises NameError when the line runs.
ModuleGlobals ==
    {"np", "Abstract_Subfunction", "slice_matrix", "concat_matrices",
     "pad_patch", "crop_patch", "SampleSplitting"}

\* ------------------------------------------------------------- the cache
EmptyCache == [k \in {} |-> None]
ShapeKey(index) == <<"shape_", index>>      \* "shape_" + str(index)
SlicerKey(index) == <<"slicer_", index>>    \* "slicer_" + str(index)

\* self.cache[key] = value
CachePut(cache, key, value) ==
    [k \in (DOMAIN cache) \cup {key} |-> IF k = key THEN value ELSE cache[k]]

\* self.cache[key] read in place of pop: the entry stays
CachePopKeep(cache, key) == cache

\* self.cache.pop(key), for a key that is present: the cache without it
CachePop(cache, key) == [k \in (DOMAIN cache) \ {key} |-> cache[k]]

\* ------------------------------------------------------ blank skipping
\* not np.any(patch[..., skip_class] != 1)
IsBlank(patch, skip_class) ==
    \A idx \in DOMAIN patch.data :
        idx[Len(idx)] = skip_class + 1 => patch.data[idx] = 1

\* for i in range(0, len(patches_seg)) with the same deletions: after a
\* deletion the next patch slides into slot i and is never visited.
RECURSIVE SkipBlanksForward(_, _, _, _)
SkipBlanksForward(patches_img, patches_seg, i, skip_class) ==
    IF i < 0 \/ i >= Len(patches_seg)
    THEN [img |-> patches_img, seg |-> patches_seg]
    ELSE IF IsBlank(patches_seg[i + 1], skip_class)
         THEN SkipBlanksForward(PyDel(patches_img, i), PyDel(patches_seg, i),
                                i + 1, skip_class)
         ELSE SkipBlanksForward(patches_img, patches_seg, i + 1, skip_class)

SkipBlanksUpward(patches_img, patches_seg, i, skip_class) ==
    SkipBlanksForward(patches_img, patches_seg, 0, skip_class)

\* for i in reversed(range(0, len(patches_seg))): i is the 0-based index the
\* loop is at; a blank patch is deleted from both lists.
RECURSIVE SkipBlanks(_, _, _, _)
SkipBlanks(patches_img, patches_seg, i, skip_class) ==
    IF i < 0 THEN [img |-> patches_img, seg |-> patches_seg]
    ELSE IF IsBlank(patches_seg[i + 1], skip_class)
         THEN SkipBlanks(PyDel(patches_img, i), PyDel(patches_seg, i),
                         i - 1, skip_class)
         ELSE SkipBlanks(patches_img, patches_seg, i - 1, skip_class)

\* ------------------------------------------------------------ outcomes
\* What a preprocessing call leaves behind: the exception it raised (or
\* "none"), the sample, the cache, the driver, and the two patch lists as
\* they were handed to np.stack / the random draw.
Outcome(err, sample, cache, data_aug, patches_img, patches_seg) ==
    [err |-> err, sample |-> sample, cache |-> cache, data_aug |-> data_aug,
     patches_img |-> patches_img, patches_seg |-> patches_seg]

\* ----------------------------------------------------- analysis_fullimage
AnalysisFullimage(this, sample, training) ==
    LET img_data == NpExpandDims(sample.img_data)
        seg_data == NpExpandDims(sample.seg_data)
    IN  IF this.data_aug.kind = "unset"
        THEN Outcome("AttributeError", sample, this.cache, this.data_aug, <<>>, <<>>)
        ELSE LET aug_img == IF this.data_aug.kind = "driver"
                            THEN AugmentOne(this.data_aug, img_data, 0)
                            ELSE img_data
                 aug_seg == IF this.data_aug.kind = "driver"
                            THEN AugmentOne(this.data_aug, seg_data, 0)
                            ELSE seg_data
             IN  IF training
                 THEN Outcome("none",
                        [sample EXCEPT !.img_data = aug_img, !.seg_data = aug_seg],
                        this.cache, this.data_aug, <<>>, <<>>)
                 \* seg_data was never bound: line 225 has run, line 226 raises
                 ELSE Outcome("UnboundLocalError",
                        [sample EXCEPT !.img_data = aug_img],
                        this.cache, this.data_aug, <<>>, <<>>)

\* ------------------------------------------------ analysis_patchwise_grid
AnalysisPatchwiseGrid(this, sample, training) ==
    LET sliced_img == SliceMatrix(sample.img_data, this.patch_shape,
                                  this.patchwise_overlap)
        sliced_seg == IF training
                      THEN SliceMatrix(sample.seg_data, this.patch_shape,
                                       this.patchwise_overlap)
                      ELSE <<>>
        kept == IF training /\ this.patchwise_skip_blanks
                THEN SkipBlanks(sliced_img, sliced_seg, Len(sliced_seg) - 1,
                                this.patchwise_skip_class)
                ELSE [img |-> sliced_img, seg |-> sliced_seg]
    IN  IF Len(kept.img) = 0
        \* np.stack of an empty list
        THEN Outcome("ValueError", sample, this.cache, this.data_aug,
                     kept.img, kept.seg)
        ELSE LET img_data == NpStack(kept.img)
                 needPad == SpatialShape(img_data) # this.patch_shape
                 padded == PadPatch(img_data, this.patch_shape)
                 pad_img == IF needPad THEN padded.val ELSE img_data
                 pad_seg == IF ~training THEN None
                            ELSE IF needPad
                                 THEN PadPatch(NpStack(kept.seg), this.patch_shape).val
                                 ELSE NpStack(kept.seg)
                 cache1 == IF needPad /\ ~training
                           THEN CachePut(this.cache, SlicerKey(sample.index),
                                         padded.slicer)
                           ELSE this.cache
             IN  IF this.data_aug.kind = "unset"
                 THEN Outcome("AttributeError", sample, cache1, this.data_aug,
                              kept.img, kept.seg)
                 ELSE LET aug_img == IF this.data_aug.kind = "driver"
                                     THEN AugmentOne(this.data_aug, pad_img, 0)
                                     ELSE pad_img
                      IN  IF training
                          THEN Outcome("none",
                                 [sample EXCEPT
                                    !.img_data = aug_img,
                                    !.seg_data = IF this.data_aug.kind = "driver"
                                                 THEN AugmentOne(this.data_aug, pad_seg, 0)
                                                 ELSE pad_seg],
                                 cache1, this.data_aug, kept.img, kept.seg)
                          \* seg_data was never bound: line 146 raises
                          ELSE Outcome("UnboundLocalError",
                                 [sample EXCEPT !.img_data = aug_img],
                                 cache1, this.data_aug, kept.img, kept.seg)

\* ------------------------------------------------ analysis_patchwise_crop
AnalysisPatchwiseCrop(this, sample, rnd) ==
    IF this.patchwise_skip_blanks
    THEN LET sliced_img == SliceMatrix(sample.img_data, this.patch_shape,
                                       this.patchwise_overlap)
             sliced_seg == SliceMatrix(sample.seg_data, this.patch_shape,
                                       this.patchwise_overlap)
             kept == SkipBlanks(sliced_img, sliced_seg, Len(sliced_seg) - 1,
                                this.patchwise_skip_class)
         IN  IF Len(kept.img) = 0
             \* np.random.randint(0, 0)
             THEN Outcome("ValueError", sample, this.cache, this.data_aug,
                          kept.img, kept.seg)
             ELSE LET img_data == NpExpandDims(kept.img[rnd + 1])
                      seg_data == NpExpandDims(kept.seg[rnd + 1])
                      needPad == SpatialShape(img_data) # this.patch_shape
                      pad_img == IF needPad
                                 THEN PadPatch(img_data, this.patch_shape).val
                                 ELSE img_data
                      pad_seg == IF needPad
                                 THEN PadPatch(seg_data, this.patch_shape).val
                                 ELSE seg_data
                  IN  IF this.data_aug.kind = "unset"
                      THEN Outcome("AttributeError", sample, this.cache,
                                   this.data_aug, kept.img, kept.seg)
                      ELSE Outcome("none",
                             [sample EXCEPT
                                !.img_data = IF this.data_aug.kind = "driver"
                                             THEN AugmentOne(this.data_aug, pad_img, 0)
                                             ELSE pad_img,
                                !.seg_data = IF this.data_aug.kind = "driver"
                                             THEN AugmentOne(this.data_aug, pad_seg, 0)
                                             ELSE pad_seg],
                             this.cache, this.data_aug, kept.img, kept.seg)
    ELSE IF this.data_aug.kind = "unset"
         THEN Outcome("AttributeError", sample, this.cache, this.data_aug, <<>>, <<>>)
         ELSE IF this.data_aug.kind = "None" /\ "Data_Augmentation" \notin ModuleGlobals
         THEN Outcome("NameError", sample, this.cache, this.data_aug, <<>>, <<>>)
         ELSE LET cropping_data_aug ==
                     [this.data_aug EXCEPT !.kind = "driver",
                                           !.cropping = TRUE,
                                           !.cropping_patch_shape = this.patch_shape]
              IN  Outcome("none",
                    [sample EXCEPT
                       !.img_data = AugmentOne(cropping_data_aug,
                                       NpExpandDims(sample.img_data), rnd),
                       !.seg_data = AugmentOne(cropping_data_aug,
                                       NpExpandDims(sample.seg_data), rnd)],
                    this.cache, cropping_data_aug, <<>>, <<>>)

\* The values the random draw of a call can take: the pointer into the
\* surviving patches, or the offset of the crop; 0 where nothing is drawn.
RandomDraws(this, sample, training) ==
    IF this.method = "patchwise-crop" /\ training
    THEN IF this.patchwise_skip_blanks
         THEN LET sliced == SliceMatrix(sample.seg_data, this.patch_shape,
                                        this.patchwise_overlap)
                  kept == SkipBlanks(sliced, sliced, Len(sliced) - 1,
                                     this.patchwise_skip_class)
              IN  IF Len(kept.seg) = 0 THEN {0} ELSE 0..(Len(kept.seg) - 1)
         ELSE IF sample.img_data.shape[1] <= this.patch_shape[1] THEN {0}
              ELSE 0..(sample.img_data.shape[1] - this.patch_shape[1])
    ELSE {0}

\* ---------------------------------------- SampleSplitting.preprocessing
Preprocessing(this, sample, training, rnd) ==
    IF this.method = "fullimage"
    THEN AnalysisFullimage(this, sample, training)
    ELSE IF this.method = "patchwise-crop" /\ training
    THEN AnalysisPatchwiseCrop(this, sample, rnd)
    ELSE IF ~training /\ "index" \notin ModuleGlobals
         \* line 82 reads the free name index before anything is cached
         THEN Outcome("NameError", sample, this.cache, this.data_aug, <<>>, <<>>)
         ELSE AnalysisPatchwiseGrid(this, sample, training)

\* --------------------------------------- SampleSplitting.postprocessing
\* The method has no return statement: its result is None whenever it does
\* not raise; `local` is the value its local variable prediction ended with.
PostOutcome(err, cache, local) ==
    [err |-> err, cache |-> cache, ret |-> None, local |-> local]

Postprocessing(this, sample, prediction, raises) ==
    IF this.method = "patchwise-crop" \/ this.method = "patchwise-grid"
    THEN LET slice_key == SlicerKey(sample.index)
             cropped == IF slice_key \in DOMAIN this.cache
                        THEN CropPatch(prediction, this.cache[slice_key])
                        ELSE prediction
         IN  IF ShapeKey(sample.index) \notin DOMAIN this.cache
             THEN PostOutcome("KeyError", this.cache, None)
             ELSE LET seg_shape == this.cache[ShapeKey(sample.index)]
                      cache1 == CachePop(this.cache, ShapeKey(sample.index))
                      whole == ConcatMatrices(cropped, seg_shape,
                                   this.patch_shape, this.patchwise_overlap,
                                   raises)
                  IN  IF whole.err # "none"
                      THEN PostOutcome(whole.err, cache1, None)
                      ELSE PostOutcome("none", cache1, whole.val)
    ELSE LET squeezed == NpSqueeze(prediction)
         IN  IF squeezed.err # "none"
             THEN PostOutcome(squeezed.err, this.cache, None)
             ELSE PostOutcome("none", this.cache, squeezed.val)

\* --------------------------------------------------- inputs (splitter)
Methods == {"patchwise-crop", "patchwise-grid", "fullimage"}

\* one-hot segmentation of n voxels, voxel p having class classes[p]
Segmentation(classes) ==
    [shape |-> <<Len(classes), Cardinality(ClassIds)>>,
     data |-> [idx \in Indices(<<Len(classes), Cardinality(ClassIds)>>) |->
                  IF classes[idx[1]] = idx[2] - 1 THEN 1 ELSE 0]]

LabelledSample(index, classes) ==
    [index |-> index, img_data |-> Image(<<Len(classes), 1>>),
     seg_data |-> Segmentation(classes), ext |-> NoExtended]

LabelledSamples ==
    {LabelledSample(0, classes) :
        classes \in UNION {[1..n -> ClassIds] : n \in 1..MaxLen}}

\* SampleSplitting.__init__: the constructor accepts the three methods, a
\* tuple patch_shape for the patchwise ones, and sets an empty cache.
Constructed ==
    {[three_dim |-> TRUE, method |-> "fullimage", cache |-> EmptyCache,
      patch_shape |-> <<>>, patchwise_overlap |-> <<0>>,
      patchwise_skip_blanks |-> FALSE, patchwise_skip_class |-> 0,
      data_aug |-> Unset]}
    \cup
    {[three_dim |-> TRUE, method |-> m, cache |-> EmptyCache,
      patch_shape |-> <<w>>, patchwise_overlap |-> <<0>>,
      patchwise_skip_blanks |-> b, patchwise_skip_class |-> c,
      data_aug |-> Unset] :
        m \in Methods \ {"fullimage"}, w \in 1..MaxPatch,
        b \in BOOLEAN, c \in ClassIds}

NoSplitCall ==
    [op |-> "none", i |-> 0, training |-> FALSE, data_aug |-> Unset,
     err |-> "none", ret |-> None, local |-> None,
     patches_img |-> <<>>, patches_seg |-> <<>>, before |-> EmptyCache,
     was |-> "unsplit"]

\* The samples that reach the splitter: the mirror variants of one input,
\* which are clones carrying the same index.
PipelineInit ==
    /\ mirror = [axisList |-> <<TRUE>>, combineMirroring |-> TRUE]
    /\ msample \in LabelledSamples
    /\ mresults = MirroringPreprocessing(mirror, msample)
    /\ mpost = NoCall
    /\ samples = mresults.results
    /\ inputs = samples
    /\ stage = [i \in 1..Len(samples) |-> "unsplit"]
    /\ call = NoSplitCall

Init ==
    /\ PipelineInit
    /\ self \in Constructed

\* ---------------------------------------------------- actions (splitter)
\* the patch batch of an input image, as the grid method builds it
GridBatch(this, sample) ==
    NpStack(SliceMatrix(sample.img_data, this.patch_shape, this.patchwise_overlap))

\* Network outputs for sample i, the network being the identity: what the
\* splitter left in the sample (full image), or the patch batch of the
\* input, padded to patch_shape or not (patchwise).
Predictions(i) ==
    IF self.method = "fullimage" THEN {samples[i].img_data}
    ELSE {GridBatch(self, inputs[i]),
          PadPatch(GridBatch(self, inputs[i]), self.patch_shape).val}

\* concat_matrices is only reached when a shape is cached for the sample.
ConcatChoices(this, sample) ==
    IF ShapeKey(sample.index) \in DOMAIN this.cache THEN BOOLEAN ELSE {TRUE}

\* set_data_aug(data_aug): the driver is bound while the pipeline is wired,
\* before the first sample goes through the splitter.
DoSetDataAug ==
    /\ call.op = "none"
    /\ \E d \in {NoDriver, Driver} :
          /\ self.data_aug.kind # d.kind
          /\ self' = [self EXCEPT !.data_aug = d]
    /\ UNCHANGED <<samples, inputs, stage, call, mvars>>

DoPreprocessing ==
    /\ \E i \in 1..Len(samples) : \E training \in BOOLEAN :
          /\ stage[i] = "unsplit"
          /\ \E rnd \in RandomDraws(self, samples[i], training) :
                LET o == Preprocessing(self, samples[i], training, rnd)
                IN  /\ samples' = [samples EXCEPT ![i] = o.sample]
                    /\ self' = [self EXCEPT !.cache = o.cache,
                                            !.data_aug = o.data_aug]
                    /\ call' = [op |-> "preprocessing", i |-> i,
                                training |-> training,
                                data_aug |-> self.data_aug,
                                err |-> o.err, ret |-> None, local |-> None,
                                patches_img |-> o.patches_img,
                                patches_seg |-> o.patches_seg,
                                before |-> self.cache, was |-> stage[i]]
                    /\ stage' = [stage EXCEPT ![i] =
                                    IF training THEN "split-training"
                                    ELSE "split-inference"]
    /\ UNCHANGED <<inputs, mvars>>

DoPostprocessing ==
    /\ \E i \in 1..Len(samples) : \E prediction \in Predictions(i) :
        \E raises \in ConcatChoices(self, samples[i]) :
          LET o == Postprocessing(self, samples[i], prediction, raises)
          IN  /\ self' = [self EXCEPT !.cache = o.cache]
              /\ call' = [op |-> "postprocessing", i |-> i,
                          training |-> FALSE, data_aug |-> self.data_aug,
                          err |-> o.err, ret |-> o.ret, local |-> o.local,
                          patches_img |-> <<>>, patches_seg |-> <<>>,
                          before |-> self.cache, was |-> stage[i]]
              /\ stage' = [stage EXCEPT ![i] = "reconstructed"]
    /\ UNCHANGED <<samples, inputs, mvars>>

Next == DoSetDataAug \/ DoPreprocessing \/ DoPostprocessing

Spec == Init /\ [][Next]_vars

\* ------------------------------------------- postprocessing on any cache
\* The cache entries a preprocessing call is meant to leave for a sample:
\* its image shape and, when its patch batch needs padding, the slicer.
EntriesFor(this, sample) ==
    LET shaped == CachePut(EmptyCache, ShapeKey(sample.index),
                           sample.img_data.shape)
    IN  IF SpatialShape(GridBatch(this, sample)) # this.patch_shape
        THEN CachePut(shaped, SlicerKey(sample.index),
                      PadPatch(GridBatch(this, sample), this.patch_shape).slicer)
        ELSE shaped

\* Two samples with different indices, a patchwise splitter with the default
\* blank-skipping parameters, and a cache holding any subset of the entries
\* of the two samples.
CacheInit ==
    /\ mirror = [axisList |-> <<>>, combineMirroring |-> TRUE]
    /\ msample \in {LabelledSample(0, [p \in 1..n |-> 1]) : n \in 1..MaxLen}
    /\ mresults = MirroringPreprocessing(mirror, msample)
    /\ mpost = NoCall
    /\ samples = mresults.results \o <<[msample EXCEPT !.index = 1]>>
    /\ inputs = samples
    /\ stage = [i \in 1..Len(samples) |-> "unsplit"]
    /\ call = NoSplitCall
    /\ \E c \in {k \in Constructed : /\ k.method # "fullimage"
                                    /\ ~k.patchwise_skip_blanks
                                    /\ k.patchwise_skip_class = 0} :
        \E keys \in SUBSET (DOMAIN EntriesFor(c, samples[1])
                              \cup DOMAIN EntriesFor(c, samples[2])) :
          self = [c EXCEPT !.cache =
                    [k \in keys |->
                        IF k[2] = 0 THEN EntriesFor(c, samples[1])[k]
                        ELSE EntriesFor(c, samples[2])[k]]]

SpecCache == CacheInit /\ [][Next]_vars

\* ================================================ claims: SampleSplitting
Patchwise == self.method = "patchwise-crop" \/ self.method = "patchwise-grid"

CallIndex == samples[call.i].index

\* C1: patchwise method, inference mode: once every sample (mirror clones
\* of one input included) has been preprocessed, the postprocessing call of
\* each preprocessed sample finds the shape recorded for it and completes
\* without error, in whatever order the calls are made.
C1_Paired ==
    ( /\ Patchwise
      /\ call.op = "postprocessing"
      /\ call.was = "split-inference"
      /\ \A j \in 1..Len(samples) : stage[j] \in {"split-inference", "reconstructed"} )
    => /\ call.err = "none"
       /\ ShapeKey(CallIndex) \in DOMAIN call.before

\* C2: a postprocessing call of a patchwise splitter that finds a recorded
\* shape for the sample's identity leaves neither the shape entry nor the
\* slicer entry of that identity in the cache.
C2_Consumed ==
    ( /\ Patchwise
      /\ call.op = "postprocessing"
      /\ call.err = "none"
      /\ ShapeKey(CallIndex) \in DOMAIN call.before )
    => /\ ShapeKey(CallIndex) \notin DOMAIN self.cache
       /\ SlicerKey(CallIndex) \notin DOMAIN self.cache

\* C3: a postprocessing call of a patchwise splitter for an identity without
\* a recorded shape raises and reconstructs nothing; so does the second of
\* two postprocessing calls on a sample with no preprocessing in between.
C3_FailsLoudly ==
    ( /\ Patchwise
      /\ call.op = "postprocessing"
      /\ \/ ShapeKey(CallIndex) \notin DOMAIN call.before
         \/ call.was = "reconstructed" )
    => /\ call.err # "none"
       /\ call.local = None
       /\ self.cache = call.before

C3_Witness ==
    /\ Patchwise
    /\ call.op = "postprocessing"
    /\ call.was = "reconstructed"
    /\ ShapeKey(1 - CallIndex) \in DOMAIN self.cache
    /\ call.err = "KeyError"

\* C4: patchwise-grid preprocessing completes in training and in inference
\* mode, and when it returns the cache holds, under the sample's identity,
\* the shape the image had before splitting and padding.  (Stated for a
\* splitter whose augmentation driver has been set and, in training, for
\* inputs that keep at least one patch.)
C4_ShapeRecorded ==
    ( /\ self.method = "patchwise-grid"
      /\ call.op = "preprocessing"
      /\ call.data_aug.kind # "unset"
      /\ call.training => Len(call.patches_img) > 0 )
    => /\ call.err = "none"
       /\ ShapeKey(CallIndex) \in DOMAIN self.cache
       /\ self.cache[ShapeKey(CallIndex)] = inputs[call.i].img_data.shape

\* C5: full-image method with an identity or absent driver: preprocessing
\* completes in both modes and gives the image a leading batch axis of
\* extent 1; postprocessing of that batch returns the original image; the
\* cache is never touched.
C5_FullImageRoundTrip ==
    ( /\ self.method = "fullimage"
      /\ call.data_aug.kind # "unset" )
    => /\ self.cache = EmptyCache
       /\ call.op = "preprocessing" =>
            /\ call.err = "none"
            /\ samples[call.i].img_data.shape = <<1>> \o inputs[call.i].img_data.shape
       /\ (call.op = "postprocessing" /\ call.was \in {"split-training", "split-inference"}) =>
            /\ call.err = "none"
            /\ call.ret # None
            /\ call.ret = inputs[call.i].img_data

\* C10: training with skip_blanks: the deletion loop leaves two patch lists
\* of equal length holding exactly the non-blank patches, in their original
\* order and still paired, and never more patches than without skip_blanks.
NonBlank(all_seg) ==
    {k \in 1..Len(all_seg) : ~IsBlank(all_seg[k], self.patchwise_skip_class)}

\* the j-th smallest member of a set of patch numbers
NthOf(S, j) == CHOOSE k \in S : Cardinality({m \in S : m <= k}) = j

C10_SkipBlanks ==
    ( /\ Patchwise
      /\ call.op = "preprocessing"
      /\ call.training
      /\ self.patchwise_skip_blanks )
    => LET all_img == SliceMatrix(inputs[call.i].img_data, self.patch_shape,
                                  self.patchwise_overlap)
           all_seg == SliceMatrix(inputs[call.i].seg_data, self.patch_shape,
                                  self.patchwise_overlap)
           keep == NonBlank(all_seg)
       IN  /\ Len(call.patches_img) = Len(call.patches_seg)
           /\ Len(call.patches_img) = Cardinality(keep)
           /\ \A j \in 1..Len(call.patches_img) :
                /\ call.patches_img[j] = all_img[NthOf(keep, j)]
                /\ call.patches_seg[j] = all_seg[NthOf(keep, j)]
           /\ Len(call.patches_img) <= Len(all_img)

C10_Witness ==
    /\ self.method = "patchwise-grid"
    /\ call.op = "preprocessing"
    /\ call.training
    /\ self.patchwise_skip_blanks
    /\ call.err = "none"
    /\ Len(call.patches_img) = 2
    /\ Len(SliceMatrix(inputs[call.i].seg_data, self.patch_shape,
                       self.patchwise_overlap)) = 3

====
